---- MODULE Spec2Model ----
(***************************************************************************)
(* Model of the algebrain dual-phase recurrent block (sample.go):          *)
(* the symbol codec, the batch partitioner, Block.ApplyBlock /             *)
(* Block.ApplyBlockR, the gradient propagation of their results and        *)
(* Block.Query.                                                            *)
(*                                                                         *)
(* The reader and writer cells are external collaborators (rnn.Block).     *)
(* They are modelled as free ("term") cells: the output and the next       *)
(* state of a cell are terms that record which cell produced them and      *)
(* from which state and input, so that any routing or alignment mistake    *)
(* of the block is visible in the values it returns.                       *)
(***************************************************************************)
EXTENDS Integers, Sequences, FiniteSets, TLC

\* ------------------------------------------------------------------ bounds
MaxBatch == 2
MaxSteps == 2
MaxLen == 3
MaxQueryLen == 2
MaxSampleLen == 2
SymMargin == 3
MaxPairBatch == 2
MaxPairSteps == 2

\* ------------------------------------------------------- program constants
CharCount == 128
Terminator == 0
maxResponseLen == 1000

\* --------------------------------------------------------------- utilities
NoVec == <<>>

Range(f) == {f[x] : x \in DOMAIN f}

SeqsUpTo(S, n) == UNION {[1..k -> S] : k \in 0..n}

\* ------------------------------------------------------------ symbol codec
\* variant: the upper range test is ix > CharCount
oneHotVectorLoose(x) ==
  LET ix == x
  IN IF ix > CharCount \/ ix < 0
     THEN [panic |-> TRUE, data |-> NoVec]
     ELSE [panic |-> FALSE,
           data |-> [k \in 0..(CharCount - 1) |-> IF k = ix THEN 1 ELSE 0]]

\* oneHotVector: panics when the rune is outside [0, CharCount), else the
\* vector with a single 1 at the rune's index.
oneHotVector(x) ==
  LET ix == x
  IN IF ix >= CharCount \/ ix < 0
     THEN [panic |-> TRUE, data |-> NoVec]
     ELSE [panic |-> FALSE,
           data |-> [k \in 0..(CharCount - 1) |-> IF k = ix THEN 1 ELSE 0]]

\* ------------------------------------------------------------------ sample
\* A string is the sequence of its runes.  len(s) counts bytes and the index
\* of  for i, x := range s  is the byte offset of x: a rune below 128 takes
\* one byte, the other runes used here take two.
Utf8Len(x) == IF x < 128 THEN 1 ELSE 2

RECURSIVE ByteLen(_)
ByteLen(str) == IF str = <<>> THEN 0 ELSE Utf8Len(Head(str)) + ByteLen(Tail(str))

\* the byte offset of the k-th rune of str
ByteOffset(str, k) == ByteLen(SubSeq(str, 1, k - 1))

NoSeq == [panic |-> TRUE, seq |-> <<>>]

\* a call that has not been made / the outcome r of a call that has
Uncalled == [called |-> FALSE]

Outcome(r) == [called |-> TRUE, r |-> r]

\* the slice after  for i, x := range str { res[i + shift] = oneHotVector(x) }
\* over a slice of n nil entries, 0-based index i kept at position i + 1
RangeFill(str, n, shift) ==
  [p \in 1..n |->
     IF \E k \in 1..Len(str) : ByteOffset(str, k) + shift + 1 = p
     THEN oneHotVector(str[CHOOSE k \in 1..Len(str) :
                             ByteOffset(str, k) + shift + 1 = p]).data
     ELSE NoVec]

AnyRunePanics(str) == \E k \in 1..Len(str) : oneHotVector(str[k]).panic

\* Sample.InputSequence
InputSequence(s) ==
  IF AnyRunePanics(s.Query) THEN NoSeq
  ELSE [panic |-> FALSE, seq |-> RangeFill(s.Query, ByteLen(s.Query), 0)]

\* Sample.DecoderOutSequence
DecoderOutSequence(s) ==
  IF AnyRunePanics(s.Response) \/ oneHotVector(Terminator).panic THEN NoSeq
  ELSE LET n == ByteLen(s.Response) + 1
       IN [panic |-> FALSE,
           seq |-> [RangeFill(s.Response, n, 0)
                      EXCEPT ![n] = oneHotVector(Terminator).data]]

\* variant: the response is not shifted behind the leading Terminator
DecoderInSequenceUnshifted(s) ==
  IF oneHotVector(0).panic \/ AnyRunePanics(s.Response) THEN NoSeq
  ELSE LET n == ByteLen(s.Response) + 1
       IN [panic |-> FALSE,
           seq |-> [p \in 1..n |->
                      IF p = 1 /\ s.Response = <<>> THEN oneHotVector(0).data
                      ELSE RangeFill(s.Response, n, 0)[p]]]

\* Sample.DecoderInSequence
DecoderInSequence(s) ==
  IF oneHotVector(0).panic \/ AnyRunePanics(s.Response) THEN NoSeq
  ELSE LET n == ByteLen(s.Response) + 1
       IN [panic |-> FALSE,
           seq |-> [p \in 1..n |->
                      IF p = 1 THEN oneHotVector(0).data
                      ELSE RangeFill(s.Response, n, 1)[p]]]

\* -------------------------------------------------------- batch partitioner
\* splitReadWrite(reading, slice, &read, &write): walks the flags in batch
\* order and appends item i to read when reading[i], else to write.  A slice
\* whose length differs from the flag vector is a precondition violation
\* that fails fast.
RECURSIVE SplitFrom(_, _, _, _, _)
SplitFrom(reading, slice, i, read, write) ==
  IF i > Len(reading)
  THEN [ok |-> TRUE, read |-> read, write |-> write]
  ELSE IF reading[i]
       THEN SplitFrom(reading, slice, i + 1, Append(read, slice[i]), write)
       ELSE SplitFrom(reading, slice, i + 1, read, Append(write, slice[i]))

\* variant: only a slice shorter than the flag vector is rejected
splitReadWriteLong(reading, slice) ==
  IF Len(slice) < Len(reading)
  THEN [ok |-> FALSE, read |-> <<>>, write |-> <<>>]
  ELSE SplitFrom(reading, slice, 1, <<>>, <<>>)

splitReadWrite(reading, slice) ==
  IF Len(slice) # Len(reading)
  THEN [ok |-> FALSE, read |-> <<>>, write |-> <<>>]
  ELSE SplitFrom(reading, slice, 1, <<>>, <<>>)

\* joinReadWrite(reading, reads, writes, &out): walks the flags in batch
\* order and takes the next unused item of reads when reading[i], else the
\* next unused item of writes.  It fails fast when the two lists do not
\* hold exactly one item per flag.
RECURSIVE JoinFrom(_, _, _, _, _, _, _)
JoinFrom(reading, reads, writes, i, ri, wi, out) ==
  IF i > Len(reading)
  THEN [ok |-> (ri = Len(reads) + 1 /\ wi = Len(writes) + 1), out |-> out]
  ELSE IF reading[i]
       THEN IF ri > Len(reads)
            THEN [ok |-> FALSE, out |-> out]
            ELSE JoinFrom(reading, reads, writes, i + 1, ri + 1, wi,
                          Append(out, reads[ri]))
       ELSE IF wi > Len(writes)
            THEN [ok |-> FALSE, out |-> out]
            ELSE JoinFrom(reading, reads, writes, i + 1, ri, wi + 1,
                          Append(out, writes[wi]))

\* variant: the reading items first, then the writing items
joinReadWriteGrouped(reading, reads, writes) ==
  [ok |-> (Len(reads) + Len(writes) = Len(reading)), out |-> reads \o writes]

joinReadWrite(reading, reads, writes) ==
  JoinFrom(reading, reads, writes, 1, 1, 1, <<>>)

\* ------------------------------------------------------------------ cells
\* The cells behind Block.Reader and Block.Writer.  A cell state remembers
\* the cell that produced it and the input it consumed; a cell output
\* remembers the cell, the state and the input it was computed from.
ReaderStartState == [by |-> "Reader.StartState", in |-> NoVec]

ReaderStartRState == [by |-> "Reader.StartRState", in |-> NoVec]

CellOutput(cell, st, in) == [by |-> cell, st |-> st, in |-> in]

CellROutput(cell, st, in) == [by |-> cell, st |-> st, in |-> in, r |-> TRUE]

CellNextState(cell, st, in) == [by |-> cell, in |-> in]

\* b.Reader.ApplyBlock(readS, readIn) / b.Writer.ApplyBlock(writeS, writeIn)
CellApplyBlock(cell, S, In) ==
  [kind |-> "cell", cell |-> cell,
   Outputs |-> [j \in 1..Len(S) |-> CellOutput(cell, S[j], In[j])],
   ROutputs |-> <<>>,
   States |-> [j \in 1..Len(S) |-> CellNextState(cell, S[j], In[j])]]

\* b.Reader.ApplyBlockR(rv, readS, readIn) / b.Writer.ApplyBlockR(...)
CellApplyBlockR(cell, S, In) ==
  [kind |-> "cell", cell |-> cell,
   Outputs |-> [j \in 1..Len(S) |-> CellOutput(cell, S[j], In[j])],
   ROutputs |-> [j \in 1..Len(S) |-> CellROutput(cell, S[j], In[j])],
   States |-> [j \in 1..Len(S) |-> CellNextState(cell, S[j], In[j])]]

\* emptyResult{}: no outputs, no states
emptyResult ==
  [kind |-> "empty", cell |-> "none",
   Outputs |-> <<>>, ROutputs |-> <<>>, States |-> <<>>]

\* The gradient a result propagates.  emptyResult returns nil and adds
\* nothing to the accumulator g; a cell result returns one state gradient
\* per sequence it served and adds its call to g.
ResultPropagateGradient(r, u, s) ==
  IF r.kind = "empty"
  THEN [down |-> <<>>, g |-> <<>>]
  ELSE [down |-> [j \in 1..Len(r.Outputs) |->
                    [by |-> r.cell, fwd |-> r.Outputs[j],
                     u |-> u[j], s |-> s[j]]],
        g |-> <<[cell |-> r.cell, u |-> u, s |-> s]>>]

ResultPropagateRGradient(r, u, uR, s) ==
  IF r.kind = "empty"
  THEN [down |-> <<>>, g |-> <<>>]
  ELSE [down |-> [j \in 1..Len(r.Outputs) |->
                    [by |-> r.cell, fwd |-> r.Outputs[j],
                     u |-> u[j], uR |-> uR[j], s |-> s[j]]],
        g |-> <<[cell |-> r.cell, u |-> u, uR |-> uR, s |-> s]>>]

\* ------------------------------------------------------------------ block
\* Block.StartState / Block.StartRState
StartState == [Reading |-> TRUE, State |-> ReaderStartState]

StartRState == [Reading |-> TRUE, State |-> ReaderStartRState]

\* variant: the reader is invoked without the len(readIn) > 0 test
InvokeReaderAlways(readS, readIn) == CellApplyBlock("Reader", readS, readIn)

\* variant: the reading partition is handed to b.Writer
InvokeReaderAsWriter(readS, readIn) ==
  IF Len(readIn) > 0 THEN CellApplyBlock("Writer", readS, readIn)
  ELSE emptyResult

\* if len(readIn) > 0 { readRes = b.Reader.ApplyBlock(readS, readIn) }
InvokeReader(readS, readIn) ==
  IF Len(readIn) > 0 THEN CellApplyBlock("Reader", readS, readIn)
  ELSE emptyResult

\* variant: the writer is handed its own start state in place of the states
\* the block carries
InvokeWriterFromStart(writeS, writeIn) ==
  IF Len(writeIn) > 0
  THEN CellApplyBlock("Writer",
         [j \in 1..Len(writeS) |-> [by |-> "Writer.StartState", in |-> NoVec]],
         writeIn)
  ELSE emptyResult

\* if len(writeIn) > 0 { writeRes = b.Writer.ApplyBlock(writeS, writeIn) }
InvokeWriter(writeS, writeIn) ==
  IF Len(writeIn) > 0 THEN CellApplyBlock("Writer", writeS, writeIn)
  ELSE emptyResult

InvokeReaderR(readS, readIn) ==
  IF Len(readIn) > 0 THEN CellApplyBlockR("Reader", readS, readIn)
  ELSE emptyResult

\* variant: the forward-mode writing partition is handed to b.Reader
InvokeWriterRByReader(writeS, writeIn) ==
  IF Len(writeIn) > 0 THEN CellApplyBlockR("Reader", writeS, writeIn)
  ELSE emptyResult

InvokeWriterR(writeS, writeIn) ==
  IF Len(writeIn) > 0 THEN CellApplyBlockR("Writer", writeS, writeIn)
  ELSE emptyResult

\* variant: the reader's outputs followed by the writer's
JoinOutputsGrouped(reading, readRes, writeRes) ==
  [ok |-> TRUE, out |-> readRes.Outputs \o writeRes.Outputs]

\* joinReadWrite(reading, readRes.Outputs(), writeRes.Outputs(), &res.OutVecs)

JoinOutputs(reading, readRes, writeRes) ==
  joinReadWrite(reading, readRes.Outputs, writeRes.Outputs)

\* variant: the sequence's own phase is not consulted
NextReadingIgnoresPhase(x, inVec) == inVec[Terminator] = 0

\* variant: only a Terminator component of exactly 1 ends Reading
NextReadingOnlyUnit(x, inVec) == x.Reading /\ inVec[Terminator] # 1

\* reading := x.(*blockState).Reading && in[i].Output()[Terminator] == 0

NextReading(x, inVec) == x.Reading /\ inVec[Terminator] = 0

NoBlockResult ==
  [panic |-> TRUE, Reading |-> <<>>, ReadRes |-> emptyResult,
   WriteRes |-> emptyResult, OutVecs |-> <<>>, ROutVecs |-> <<>>,
   OutStates |-> <<>>]

\* variant: the next phase of every sequence is taken from the Terminator
\* component of the first sequence's input
ApplyBlockSharedTerminator(s, in) ==
  LET reading == [i \in 1..Len(s) |-> s[i].Reading]
      internalS == [i \in 1..Len(s) |-> s[i].State]
      splitS == splitReadWrite(reading, internalS)
      splitIn == splitReadWrite(reading, in)
      readRes == InvokeReader(splitS.read, splitIn.read)
      writeRes == InvokeWriter(splitS.write, splitIn.write)
      outVecs == JoinOutputs(reading, readRes, writeRes)
      internalStates == joinReadWrite(reading, readRes.States, writeRes.States)
  IN IF ~(splitS.ok /\ splitIn.ok /\ outVecs.ok /\ internalStates.ok)
     THEN [NoBlockResult EXCEPT !.Reading = reading]
     ELSE [panic |-> FALSE, Reading |-> reading,
           ReadRes |-> readRes, WriteRes |-> writeRes,
           OutVecs |-> outVecs.out, ROutVecs |-> <<>>,
           OutStates |-> [i \in 1..Len(s) |->
                            [Reading |-> NextReading(s[i], in[1]),
                             State |-> internalStates.out[i]]]]

\* Block.ApplyBlock
ApplyBlock(s, in) ==
  LET reading == [i \in 1..Len(s) |-> s[i].Reading]
      internalS == [i \in 1..Len(s) |-> s[i].State]
      splitS == splitReadWrite(reading, internalS)
      splitIn == splitReadWrite(reading, in)
      readRes == InvokeReader(splitS.read, splitIn.read)
      writeRes == InvokeWriter(splitS.write, splitIn.write)
      outVecs == JoinOutputs(reading, readRes, writeRes)
      internalStates == joinReadWrite(reading, readRes.States, writeRes.States)
  IN IF ~(splitS.ok /\ splitIn.ok /\ outVecs.ok /\ internalStates.ok)
     THEN [NoBlockResult EXCEPT !.Reading = reading]
     ELSE [panic |-> FALSE, Reading |-> reading,
           ReadRes |-> readRes, WriteRes |-> writeRes,
           OutVecs |-> outVecs.out, ROutVecs |-> <<>>,
           OutStates |-> [i \in 1..Len(s) |->
                            [Reading |-> NextReading(s[i], in[i]),
                             State |-> internalStates.out[i]]]]

\* Block.ApplyBlockR; in[i] is an RResult with Output and ROutput
ApplyBlockR(s, in) ==
  LET reading == [i \in 1..Len(s) |-> s[i].Reading]
      internalS == [i \in 1..Len(s) |-> s[i].State]
      splitS == splitReadWrite(reading, internalS)
      splitIn == splitReadWrite(reading, in)
      readRes == InvokeReaderR(splitS.read, splitIn.read)
      writeRes == InvokeWriterR(splitS.write, splitIn.write)
      outVecs == joinReadWrite(reading, readRes.Outputs, writeRes.Outputs)
      rOutVecs == joinReadWrite(reading, readRes.ROutputs, writeRes.ROutputs)
      internalStates == joinReadWrite(reading, readRes.States, writeRes.States)
  IN IF ~(splitS.ok /\ splitIn.ok /\ outVecs.ok /\ rOutVecs.ok
          /\ internalStates.ok)
     THEN [NoBlockResult EXCEPT !.Reading = reading]
     ELSE [panic |-> FALSE, Reading |-> reading,
           ReadRes |-> readRes, WriteRes |-> writeRes,
           OutVecs |-> outVecs.out, ROutVecs |-> rOutVecs.out,
           OutStates |-> [i \in 1..Len(s) |->
                            [Reading |-> NextReading(s[i], in[i].Output),
                             State |-> internalStates.out[i]]]]

NoGrad == [called |-> FALSE, panic |-> FALSE, down |-> <<>>, g |-> <<>>]

GradPanic == [called |-> TRUE, panic |-> TRUE, down |-> <<>>, g |-> <<>>]

\* variant: the gradients are partitioned by the phases after the step; each
\* sub-result answers for as many sequences as it is handed
PropagateGradientByNextPhase(b, u, s) ==
  LET after == [i \in 1..Len(b.OutStates) |-> b.OutStates[i].Reading]
      splitU == splitReadWrite(after, u)
      splitS == splitReadWrite(after, s)
  IN IF ~(splitU.ok /\ splitS.ok)
     THEN GradPanic
     ELSE LET readDown == ResultPropagateGradient(
                            [b.ReadRes EXCEPT !.Outputs =
                               [j \in 1..Len(splitU.read) |-> NoVec]],
                            splitU.read, splitS.read)
              writeDown == ResultPropagateGradient(
                            [b.WriteRes EXCEPT !.Outputs =
                               [j \in 1..Len(splitU.write) |-> NoVec]],
                            splitU.write, splitS.write)
              down == joinReadWrite(after, readDown.down, writeDown.down)
          IN [called |-> TRUE, panic |-> ~down.ok, down |-> down.out,
              g |-> readDown.g \o writeDown.g]

\* variant: the reader's state gradients followed by the writer's
PropagateGradientGrouped(b, u, s) ==
  LET splitU == splitReadWrite(b.Reading, u)
      splitS == splitReadWrite(b.Reading, s)
  IN IF ~(splitU.ok /\ splitS.ok)
     THEN GradPanic
     ELSE LET readDown == ResultPropagateGradient(b.ReadRes, splitU.read,
                                                  splitS.read)
              writeDown == ResultPropagateGradient(b.WriteRes, splitU.write,
                                                   splitS.write)
          IN [called |-> TRUE, panic |-> FALSE,
              down |-> readDown.down \o writeDown.down,
              g |-> readDown.g \o writeDown.g]

\* blockResult.PropagateGradient: a failed split panics before any sub-result
\* is called
PropagateGradient(b, u, s) ==
  LET splitU == splitReadWrite(b.Reading, u)
      splitS == splitReadWrite(b.Reading, s)
  IN IF ~(splitU.ok /\ splitS.ok)
     THEN GradPanic
     ELSE LET readDown == ResultPropagateGradient(b.ReadRes, splitU.read,
                                                  splitS.read)
              writeDown == ResultPropagateGradient(b.WriteRes, splitU.write,
                                                   splitS.write)
              down == joinReadWrite(b.Reading, readDown.down, writeDown.down)
          IN IF ~down.ok
             THEN GradPanic
             ELSE [called |-> TRUE, panic |-> FALSE, down |-> down.out,
                   g |-> readDown.g \o writeDown.g]

\* blockRResult.PropagateRGradient
PropagateRGradient(b, u, uR, s) ==
  LET splitU == splitReadWrite(b.Reading, u)
      splitUR == splitReadWrite(b.Reading, uR)
      splitS == splitReadWrite(b.Reading, s)
  IN IF ~(splitU.ok /\ splitUR.ok /\ splitS.ok)
     THEN GradPanic
     ELSE LET readDown == ResultPropagateRGradient(b.ReadRes, splitU.read,
                                                   splitUR.read, splitS.read)
              writeDown == ResultPropagateRGradient(b.WriteRes, splitU.write,
                                                    splitUR.write, splitS.write)
              down == joinReadWrite(b.Reading, readDown.down, writeDown.down)
          IN IF ~down.ok
             THEN GradPanic
             ELSE [called |-> TRUE, panic |-> FALSE, down |-> down.out,
                   g |-> readDown.g \o writeDown.g]

\* ------------------------------------------------------------ query runner
\* rnn.Runner.StepTime on the block: the first call starts from
\* Block.StartState; every call applies the block to a batch of one.
NoState == [Reading |-> TRUE, State |-> [by |-> "unset", in |-> NoVec]]

StepTime(cur, inVec) ==
  LET s == IF cur = NoState THEN StartState ELSE cur
      r == ApplyBlock(<<s>>, <<inVec>>)
  IN [state |-> r.OutStates[1], out |-> r.OutVecs[1], served |-> s.Reading]

\* if x < 0 || x > 128 { continue }
QuerySkips(x) == x < 0 \/ x > 128

\* variant: the decoding loop ends on a decoded Terminator only
DecodeStopsNoCap(nextIdx, len) == nextIdx = 0

\* variant: the decoding loop ends at the length cap only
DecodeStopsOnlyCap(nextIdx, len) == len >= maxResponseLen

\* if lastOut == 0 || len(res) >= maxResponseLen { break }
DecodeStops(nextIdx, len) == nextIdx = 0 \/ len >= maxResponseLen

\* variant: every decoding step is fed the Terminator
DecodeInputStart(last) == oneHotVector(Terminator)

\* nextVec := r.StepTime(oneHotVector(lastOut))
DecodeInput(last) == oneHotVector(last)

\* ---------------------------------------------------------------- state
VARIABLES
  \* the batch driven through ApplyBlock / ApplyBlockR
  mode,      \* "rev": ApplyBlock and PropagateGradient; "fwd": the R variants
  states,    \* the batch's current block states
  steps,     \* timesteps taken
  callS,     \* the states passed to the latest step
  callIn,    \* the inputs passed to the latest step
  res,       \* the latest step's blockResult / blockRResult
  gradU,     \* upstream output gradients of the latest propagation
  gradUR,    \* upstream R output gradients (forward mode)
  gradS,     \* upstream state gradients of the latest propagation
  grad,      \* outcome of the latest propagation
  bpc,       \* "run", or "panic" once a call has panicked
  \* the partitioner applied to arbitrary flags and items
  pflags, pitems, psplit, pjoin, ppc,
  \* Block.Query
  rest,      \* the runes of q the range loop has not yet visited
  qpc,       \* "feed", "decode", "done", "panic"
  rstate,    \* the Runner's current state
  lastOut,   \* lastOut
  qres,      \* res, as the runes appended to it
  qresLen,   \* len(res), in bytes
  qlast,     \* what the latest step of Query did with which rune or input
  decoded,   \* every index Max() returned in the decoding loop, in order
  qzero,     \* whether a rune with code 0 was among the fed query runes
  \* a Sample and the sequences derived from it
  sample,    \* [Query, Response], each the sequence of the string's runes
  inSeq,     \* outcome of InputSequence, Uncalled before the call
  decOut,    \* result of DecoderOutSequence
  decIn,     \* result of DecoderInSequence
  \* oneHotVector applied to one rune
  sym, enc,
  \* two runs of ApplyBlock steps observed at one batch position
  pidx,      \* the observed batch position
  pA, pB,    \* the block states of the two runs
  pinA, pinB, \* the inputs of the two runs' latest step
  psteps     \* steps taken by both runs

blockVars == <<mode, states, steps, callS, callIn, res, gradU, gradUR, gradS,
               grad, bpc>>

partVars == <<pflags, pitems, psplit, pjoin, ppc>>

queryVars == <<rest, qpc, rstate, lastOut, qres, qresLen, qlast, decoded,
               qzero>>

sampleVars == <<sample, inSeq, decOut, decIn>>

encVars == <<sym, enc>>

pairVars == <<pidx, pA, pB, pinA, pinB, psteps>>

vars == <<blockVars, partVars, queryVars, sampleVars, encVars, pairVars>>

\* ------------------------------------------------------------ input sets
VecA == oneHotVector(97).data

VecB == oneHotVector(98).data

VecT == oneHotVector(Terminator).data

\* a vector whose Terminator component is non-zero without being 1
VecM == [k \in 0..(CharCount - 1) |-> IF k = Terminator THEN -1
                                      ELSE IF k = 98 THEN 1 ELSE 0]

InputVecs == {VecA, VecT, VecM}

RResultOf(v) == [Output |-> v, ROutput |-> v]

\* upstream gradients: one distinct value per batch position
UpstreamVec(i) == oneHotVector(i).data

UpstreamStateGrad(i) == [sg |-> i]

Items == {"a", "b", "c"}

QueryRunes == {0, 97, 127, 128, 129}

\* the indices Max() can return for a cell output of CharCount components
DecodeSyms == {0, 97}

SampleRunes == {0, 97, 128}

PairVecs == {VecA, VecB, VecT}

\* a block state a sequence can be in when a run is picked up: the start
\* state, or Writing after the reader consumed a Terminator
PairStates == {StartState,
               [Reading |-> FALSE, State |-> CellNextState("Reader", ReaderStartState, VecT)]}

\* ------------------------------------------------------------------ idle
BlockIdle ==
  /\ mode = "idle" /\ states = <<>> /\ steps = 0 /\ callS = <<>>
  /\ callIn = <<>> /\ res = NoBlockResult /\ gradU = <<>> /\ gradUR = <<>>
  /\ gradS = <<>> /\ grad = NoGrad /\ bpc = "idle"

PartIdle ==
  /\ pflags = <<>> /\ pitems = <<>> /\ ppc = "idle"
  /\ psplit = [ok |-> FALSE, read |-> <<>>, write |-> <<>>]
  /\ pjoin = [ok |-> FALSE, out |-> <<>>]

QueryIdle ==
  /\ rest = <<>> /\ qpc = "idle" /\ rstate = NoState /\ lastOut = Terminator
  /\ qres = <<>> /\ qresLen = 0 /\ qlast = [op |-> "none"]
  /\ decoded = <<>> /\ qzero = FALSE

SampleIdle ==
  /\ sample = [Query |-> <<>>, Response |-> <<>>]
  /\ inSeq = Uncalled /\ decOut = Uncalled /\ decIn = Uncalled

EncIdle == sym = 0 /\ enc = Uncalled

PairIdle ==
  /\ pidx = 0 /\ pA = <<>> /\ pB = <<>> /\ pinA = <<>> /\ pinB = <<>>
  /\ psteps = 0

OthersIdle == SampleIdle /\ EncIdle /\ PairIdle

\* ------------------------------------------------- the batch specification
BlockInit ==
  /\ mode \in {"rev", "fwd"}
  /\ \E n \in 0..MaxBatch :
       states = [i \in 1..n |-> IF mode = "rev" THEN StartState
                                ELSE StartRState]
  /\ steps = 0 /\ callS = <<>> /\ callIn = <<>> /\ res = NoBlockResult
  /\ gradU = <<>> /\ gradUR = <<>> /\ gradS = <<>> /\ grad = NoGrad
  /\ bpc = "run"

Init == BlockInit /\ PartIdle /\ QueryIdle /\ OthersIdle

AfterStep(r, in) ==
  /\ res' = r
  /\ callS' = states
  /\ callIn' = in
  /\ states' = IF r.panic THEN states ELSE r.OutStates
  /\ bpc' = IF r.panic THEN "panic" ELSE "run"
  /\ steps' = steps + 1
  /\ gradU' = <<>> /\ gradUR' = <<>> /\ gradS' = <<>> /\ grad' = NoGrad
  /\ UNCHANGED <<mode, partVars, queryVars, sampleVars, encVars, pairVars>>

\* one timestep of the batch through Block.ApplyBlock
Step ==
  /\ mode = "rev" /\ bpc = "run" /\ steps < MaxSteps
  /\ \E in \in [1..Len(states) -> InputVecs] :
       AfterStep(ApplyBlock(states, in), in)

\* one timestep of the batch through Block.ApplyBlockR
StepR ==
  /\ mode = "fwd" /\ bpc = "run" /\ steps < MaxSteps
  /\ \E in \in [1..Len(states) -> {RResultOf(v) : v \in InputVecs}] :
       AfterStep(ApplyBlockR(states, in), in)

\* the lengths a caller may pass: the batch size, or one more or one less
GradLens(n) == {k \in {n - 1, n, n + 1} : k >= 0}

AfterPropagate(o, u, uR, s) ==
  /\ grad' = o
  /\ gradU' = u /\ gradUR' = uR /\ gradS' = s
  /\ bpc' = IF o.panic THEN "panic" ELSE "run"
  /\ UNCHANGED <<mode, states, steps, callS, callIn, res, partVars, queryVars, sampleVars, encVars, pairVars>>

\* PropagateGradient on the latest step's result
Propagate ==
  /\ mode = "rev" /\ bpc = "run" /\ steps > 0 /\ ~grad.called
  /\ \E lu \in GradLens(Len(callS)), ls \in GradLens(Len(callS)) :
       /\ lu = Len(callS) \/ ls = Len(callS)
       /\ LET u == [i \in 1..lu |-> UpstreamVec(i)]
              s == [i \in 1..ls |-> UpstreamStateGrad(i)]
          IN AfterPropagate(PropagateGradient(res, u, s), u, <<>>, s)

\* PropagateRGradient on the latest step's result
PropagateR ==
  /\ mode = "fwd" /\ bpc = "run" /\ steps > 0 /\ ~grad.called
  /\ \E lu \in GradLens(Len(callS)), lr \in GradLens(Len(callS)),
        ls \in GradLens(Len(callS)) :
       /\ Cardinality({x \in {"u", "r", "s"} :
                         (x = "u" /\ lu # Len(callS))
                         \/ (x = "r" /\ lr # Len(callS))
                         \/ (x = "s" /\ ls # Len(callS))}) <= 1
       /\ LET u == [i \in 1..lu |-> UpstreamVec(i)]
              uR == [i \in 1..lr |-> UpstreamVec(i + 10)]
              s == [i \in 1..ls |-> UpstreamStateGrad(i)]
          IN AfterPropagate(PropagateRGradient(res, u, uR, s), u, uR, s)

Next == Step \/ StepR \/ Propagate \/ PropagateR

Spec == Init /\ [][Next]_vars

\* ------------------------------------------- the partitioner specification
PartInit ==
  /\ \E n \in 0..MaxLen :
       /\ pflags \in [1..n -> BOOLEAN]
       /\ pitems \in [1..n -> Items]
  /\ psplit = [ok |-> FALSE, read |-> <<>>, write |-> <<>>]
  /\ pjoin = [ok |-> FALSE, out |-> <<>>]
  /\ ppc = "start"

\* split(phaseFlags, items)
PartSplit ==
  /\ ppc = "start"
  /\ psplit' = splitReadWrite(pflags, pitems)
  /\ ppc' = "split"
  /\ UNCHANGED <<pflags, pitems, pjoin, blockVars, queryVars, sampleVars, encVars, pairVars>>

\* join(phaseFlags, readingItems, writingItems)
PartJoin ==
  /\ ppc = "split"
  /\ pjoin' = joinReadWrite(pflags, psplit.read, psplit.write)
  /\ ppc' = "joined"
  /\ UNCHANGED <<pflags, pitems, psplit, blockVars, queryVars, sampleVars, encVars, pairVars>>

PartNext == PartSplit \/ PartJoin

InitPartition == BlockIdle /\ PartInit /\ QueryIdle /\ OthersIdle

SpecPartition == InitPartition /\ [][PartNext]_vars

\* ------------------------------------------------ the Query specification
QueryInit ==
  /\ rest \in SeqsUpTo(QueryRunes, MaxQueryLen)
  /\ qpc = "feed" /\ rstate = NoState /\ lastOut = Terminator
  /\ qres = <<>> /\ qresLen = 0 /\ qlast = [op |-> "none"]
  /\ decoded = <<>> /\ qzero = FALSE

\* one iteration of  for _, x := range q
QueryFeed ==
  /\ qpc = "feed" /\ rest # <<>>
  /\ LET x == Head(rest)
         v == oneHotVector(x)
     IN IF QuerySkips(x)
        THEN /\ qlast' = [op |-> "skip", x |-> x]
             /\ UNCHANGED <<rstate, qpc>>
        ELSE IF v.panic
             THEN /\ qpc' = "panic"
                  /\ qlast' = [op |-> "panic", x |-> x]
                  /\ UNCHANGED rstate
             ELSE /\ rstate' = StepTime(rstate, v.data).state
                  /\ qlast' = [op |-> "feed", x |-> x, in |-> v.data,
                               served |-> StepTime(rstate, v.data).served]
                  /\ UNCHANGED qpc
  /\ qzero' = (qzero \/ (~QuerySkips(Head(rest)) /\ Head(rest) = 0))
  /\ rest' = Tail(rest)
  /\ UNCHANGED <<lastOut, qres, qresLen, decoded, blockVars, partVars, sampleVars, encVars, pairVars>>

\* r.StepTime(oneHotVector(Terminator)); lastOut = Terminator; res = "".
\* The step's output is dropped; outIdx is the index Max() would return
\* for it.
QueryTerminate ==
  /\ qpc = "feed" /\ rest = <<>>
  /\ LET v == oneHotVector(Terminator)
     IN \E outIdx \in DecodeSyms :
          /\ rstate' = StepTime(rstate, v.data).state
          /\ qlast' = [op |-> "term", x |-> Terminator, in |-> v.data,
                       served |-> StepTime(rstate, v.data).served,
                       nextIdx |-> outIdx]
  /\ qpc' = "decode"
  /\ UNCHANGED <<rest, lastOut, qres, qresLen, decoded, qzero, blockVars,
                 partVars, sampleVars, encVars, pairVars>>

\* one iteration of the decoding loop
QueryDecode ==
  /\ qpc = "decode"
  /\ LET v == DecodeInput(lastOut)
     IN IF v.panic
        THEN /\ qpc' = "panic"
             /\ qlast' = [op |-> "panic", x |-> lastOut]
             /\ UNCHANGED <<rstate, lastOut, qres, qresLen, decoded>>
        ELSE \E nextIdx \in DecodeSyms :
               /\ rstate' = StepTime(rstate, v.data).state
               /\ lastOut' = nextIdx
               /\ decoded' = Append(decoded, nextIdx)
               /\ qlast' = [op |-> "decode", x |-> lastOut, in |-> v.data,
                            served |-> StepTime(rstate, v.data).served,
                            nextIdx |-> nextIdx,
                            prevOp |-> qlast.op, prevIdx |-> qlast.nextIdx]
               /\ IF DecodeStops(nextIdx, qresLen)
                  THEN /\ qpc' = "done"
                       /\ UNCHANGED <<qres, qresLen>>
                  ELSE /\ qres' = Append(qres, nextIdx)
                       /\ qresLen' = qresLen + 1
                       /\ UNCHANGED qpc
  /\ UNCHANGED <<rest, qzero, blockVars, partVars, sampleVars, encVars, pairVars>>

QueryNext == QueryFeed \/ QueryTerminate \/ QueryDecode

InitQuery == BlockIdle /\ PartIdle /\ QueryInit /\ OthersIdle

SpecQuery == InitQuery /\ [][QueryNext]_vars

\* Query is straight-line code around loops: while it has a step to take it
\* takes it (each cell step is assumed to return).
SpecQueryFair == SpecQuery /\ WF_vars(QueryNext)

\* ----------------------------------------------- the Sample specification
SampleInit ==
  /\ sample \in [Query : SeqsUpTo(SampleRunes, MaxSampleLen),
                  Response : SeqsUpTo(SampleRunes, MaxSampleLen)]
  /\ inSeq = Uncalled /\ decOut = Uncalled /\ decIn = Uncalled

SampleInputSequence ==
  /\ ~inSeq.called
  /\ inSeq' = Outcome(InputSequence(sample))
  /\ UNCHANGED <<sample, decOut, decIn, blockVars, partVars, queryVars,
                 encVars, pairVars>>

SampleDecoderOutSequence ==
  /\ ~decOut.called
  /\ decOut' = Outcome(DecoderOutSequence(sample))
  /\ UNCHANGED <<sample, inSeq, decIn, blockVars, partVars, queryVars,
                 encVars, pairVars>>

SampleDecoderInSequence ==
  /\ ~decIn.called
  /\ decIn' = Outcome(DecoderInSequence(sample))
  /\ UNCHANGED <<sample, inSeq, decOut, blockVars, partVars, queryVars,
                 encVars, pairVars>>

SampleNext ==
  SampleInputSequence \/ SampleDecoderOutSequence \/ SampleDecoderInSequence

InitSample ==
  BlockIdle /\ PartIdle /\ QueryIdle /\ SampleInit /\ EncIdle /\ PairIdle

SpecSample == InitSample /\ [][SampleNext]_vars

\* ------------------------------------------------ the codec specification
EncInit ==
  /\ sym \in (0 - SymMargin)..(CharCount + SymMargin)
  /\ enc = Uncalled

\* oneHotVector(sym)
Encode ==
  /\ ~enc.called
  /\ enc' = Outcome(oneHotVector(sym))
  /\ UNCHANGED <<sym, blockVars, partVars, queryVars, sampleVars, pairVars>>

EncNext == Encode

InitEncode ==
  BlockIdle /\ PartIdle /\ QueryIdle /\ SampleIdle /\ EncInit /\ PairIdle

SpecEncode == InitEncode /\ [][EncNext]_vars

\* ---------------------------------------------- the two-run specification
\* Two runs of ApplyBlock over batches of the same size.  Sequence pidx has
\* the same phase in both at the start and receives inputs with the same
\* Terminator component in both at every step; everything else is free.
PairInit ==
  /\ \E n \in 1..MaxPairBatch :
       /\ pidx \in 1..n
       /\ pA \in [1..n -> PairStates]
       /\ pB \in [1..n -> PairStates]
  /\ pA[pidx].Reading = pB[pidx].Reading
  /\ pinA = <<>> /\ pinB = <<>> /\ psteps = 0

PairStep ==
  /\ psteps < MaxPairSteps
  /\ \E inA \in [1..Len(pA) -> PairVecs], inB \in [1..Len(pB) -> PairVecs] :
       /\ inA[pidx][Terminator] = inB[pidx][Terminator]
       /\ pA' = ApplyBlock(pA, inA).OutStates
       /\ pB' = ApplyBlock(pB, inB).OutStates
       /\ pinA' = inA /\ pinB' = inB
  /\ psteps' = psteps + 1
  /\ UNCHANGED <<pidx, blockVars, partVars, queryVars, sampleVars, encVars>>

PairNext == PairStep

InitPair ==
  BlockIdle /\ PartIdle /\ QueryIdle /\ SampleIdle /\ EncIdle /\ PairInit

SpecPair == InitPair /\ [][PairNext]_vars

\* ================================================================ claims
\* the sub-cell that serves a sequence in the given block state
Serving(st) == IF st.Reading THEN "Reader" ELSE "Writer"

Stepped == steps > 0 /\ ~res.panic

Batch == 1..Len(callS)

\* C1: once a sequence of the batch is Writing (Reading = false), it is
\* Writing after every later ApplyBlock step, whatever the inputs are.
C1_MonotonicPhase ==
  [][mode = "rev" =>
       \A i \in 1..Len(states) :
         ~states[i].Reading =>
           (Len(states') = Len(states) /\ ~states'[i].Reading)]_vars

\* a Writing sequence was stepped with a zero Terminator component and is
\* still Writing
C1_Witness ==
  /\ mode = "rev" /\ Stepped
  /\ \E i \in Batch :
       ~callS[i].Reading /\ callIn[i][Terminator] = 0 /\ ~states[i].Reading

\* C2: after an ApplyBlock step, sequence i is Reading iff it was Reading
\* before the step and the Terminator component of its input was 0.
C2_NextPhase ==
  (mode = "rev" /\ Stepped) =>
    /\ Len(res.OutStates) = Len(callS)
    /\ \A i \in Batch :
         res.OutStates[i].Reading <=>
           (callS[i].Reading /\ callIn[i][Terminator] = 0)

\* a Reading sequence consumed a non-zero, non-unit Terminator component and
\* is now Writing
C2_Witness ==
  /\ mode = "rev" /\ Stepped
  /\ \E i \in Batch :
       /\ callS[i].Reading /\ callIn[i][Terminator] \notin {0, 1}
       /\ ~res.OutStates[i].Reading

\* the k-th position of the flag vector that carries flag b
KthIndex(flags, b, k) ==
  CHOOSE i \in 1..Len(flags) :
    flags[i] = b /\ Cardinality({j \in 1..i : flags[j] = b}) = k

\* C3: splitting items by a flag vector and joining the two parts by the
\* same flags gives the items back; the reading part has one item per true
\* flag and both parts keep the items' relative order.
C3_SplitJoinInverse ==
  /\ ppc \in {"split", "joined"} =>
       /\ psplit.ok
       /\ Len(psplit.read) = Cardinality({i \in 1..Len(pflags) : pflags[i]})
       /\ Len(psplit.write) = Cardinality({i \in 1..Len(pflags) : ~pflags[i]})
       /\ \A k \in 1..Len(psplit.read) :
            psplit.read[k] = pitems[KthIndex(pflags, TRUE, k)]
       /\ \A k \in 1..Len(psplit.write) :
            psplit.write[k] = pitems[KthIndex(pflags, FALSE, k)]
  /\ ppc = "joined" => (pjoin.ok /\ pjoin.out = pitems)

\* a writing item ahead of a different reading item went through split and
\* join
C3_Witness ==
  /\ ppc = "joined"
  /\ \E i, j \in 1..Len(pflags) :
       i < j /\ ~pflags[i] /\ pflags[j] /\ pitems[i] # pitems[j]

\* C4: an ApplyBlock step on N sequences returns N outputs and N states, and
\* position i holds what the sub-cell serving sequence i computed from
\* sequence i's own inner state and input.
C4_BatchAlignment ==
  (mode = "rev" /\ steps > 0) =>
    /\ ~res.panic
    /\ Len(res.OutVecs) = Len(callS)
    /\ Len(res.OutStates) = Len(callS)
    /\ \A i \in Batch :
         /\ res.OutVecs[i] =
              CellOutput(Serving(callS[i]), callS[i].State, callIn[i])
         /\ res.OutStates[i].State =
              CellNextState(Serving(callS[i]), callS[i].State, callIn[i])

\* a mixed batch in which a Writing sequence stands ahead of a Reading one
\* with a different input
C4_Witness ==
  /\ mode = "rev" /\ Stepped
  /\ \E i, j \in Batch :
       i < j /\ ~callS[i].Reading /\ callS[j].Reading
       /\ callIn[i] # callIn[j]

\* C5: in ApplyBlock and ApplyBlockR a sub-cell is invoked only when its
\* partition is not empty; the one not invoked is an empty result without
\* outputs or states.
C5_EmptyPartitionNotInvoked ==
  Stepped =>
    /\ res.ReadRes.kind = "cell" => \E i \in Batch : callS[i].Reading
    /\ res.WriteRes.kind = "cell" => \E i \in Batch : ~callS[i].Reading
    /\ \A r \in {res.ReadRes, res.WriteRes} :
         r.kind # "cell" =>
           (r = emptyResult /\ r.Outputs = <<>> /\ r.ROutputs = <<>>
            /\ r.States = <<>>)

\* every sequence of a batch of two or more was Writing: the reader was not
\* invoked
C5_Witness ==
  /\ Stepped /\ Len(callS) >= 2
  /\ \A i \in Batch : ~callS[i].Reading
  /\ res.ReadRes.kind = "empty" /\ res.WriteRes.kind = "cell"

\* C6: when every state passed to ApplyBlock is Reading, the step's outputs
\* and next inner states are those of the reader cell applied alone to the
\* whole batch.
C6_AllReadingIsReader ==
  (mode = "rev" /\ steps > 0 /\ \A i \in Batch : callS[i].Reading) =>
    LET alone == CellApplyBlock("Reader",
                                [i \in Batch |-> callS[i].State], callIn)
    IN /\ ~res.panic
       /\ res.OutVecs = alone.Outputs
       /\ [i \in 1..Len(res.OutStates) |-> res.OutStates[i].State]
            = alone.States

\* an all-Reading batch of two sequences with different inputs was stepped
C6_Witness ==
  /\ mode = "rev" /\ Stepped /\ Len(callS) >= 2
  /\ \A i \in Batch : callS[i].Reading
  /\ callIn[1] # callIn[2]

\* C7: PropagateGradient on the result of a step over N states, given N
\* output gradients and N state gradients, returns N state gradients, and
\* position i is the gradient the sub-cell that served sequence i returned
\* for sequence i.
C7_GradientAlignment ==
  (mode = "rev" /\ grad.called /\ Len(gradU) = Len(callS)
   /\ Len(gradS) = Len(callS)) =>
    /\ ~grad.panic
    /\ Len(grad.down) = Len(callS)
    /\ \A i \in Batch :
         grad.down[i] =
           [by |-> Serving(callS[i]),
            fwd |-> CellOutput(Serving(callS[i]), callS[i].State, callIn[i]),
            u |-> gradU[i], s |-> gradS[i]]

\* gradients came back for a mixed batch with a Writing sequence ahead of a
\* Reading one
C7_Witness ==
  /\ mode = "rev" /\ grad.called /\ ~grad.panic
  /\ \E i, j \in Batch : i < j /\ ~callS[i].Reading /\ callS[j].Reading

\* the calls of the accumulator log made on the given cell's result
CallsOf(cell) == {k \in 1..Len(grad.g) : grad.g[k].cell = cell}

\* the sub-cell's result received exactly the gradients of the positions I
GotExactly(cell, I) ==
  IF I = {}
  THEN CallsOf(cell) = {}
  ELSE /\ Cardinality(CallsOf(cell)) = 1
       /\ \A k \in CallsOf(cell) :
            /\ Len(grad.g[k].u) = Cardinality(I)
            /\ Len(grad.g[k].s) = Cardinality(I)
            /\ Range(grad.g[k].u) = {gradU[i] : i \in I}
            /\ Range(grad.g[k].s) = {gradS[i] : i \in I}

\* C8: gradient propagation partitions by the phases the sequences had when
\* the forward step started: the reader's result gets exactly the gradients
\* of the sequences the reader served, the writer's result the others, and
\* a sub-cell whose partition was empty gets nothing.
C8_GradientByForwardPhase ==
  (mode = "rev" /\ grad.called /\ Len(gradU) = Len(callS)
   /\ Len(gradS) = Len(callS)) =>
    /\ ~grad.panic
    /\ GotExactly("Reader", {i \in Batch : callS[i].Reading})
    /\ GotExactly("Writer", {i \in Batch : ~callS[i].Reading})

\* gradients were propagated through a step in which a sequence consumed
\* its terminator next to a sequence that was already Writing
C8_Witness ==
  /\ mode = "rev" /\ grad.called /\ ~grad.panic
  /\ \E i, j \in Batch :
       /\ callS[i].Reading /\ ~states[i].Reading
       /\ ~callS[j].Reading
  /\ CallsOf("Reader") # {}

C10_QuerySkipsOutOfRange ==
  /\ qpc # "panic"
  /\ qlast.op \in {"skip", "feed", "panic"} =>
       IF qlast.x \in 0..(CharCount - 1)
       THEN qlast.op = "feed" /\ qlast.in = oneHotVector(qlast.x).data
       ELSE qlast.op = "skip"

\* C11: Query ends for every query and every writer behaviour: the decoding
\* loop stops by itself and the response never holds more than
\* maxResponseLen symbols.
C11_QueryTerminates ==
  /\ [](qresLen <= maxResponseLen /\ Len(qres) <= maxResponseLen
        /\ Len(decoded) <= maxResponseLen + 1)
  /\ <>(qpc \in {"done", "panic"})

\* the writer never emitted the Terminator and the cap ended the loop
C11_Witness ==
  /\ qpc = "done" /\ lastOut # Terminator
  /\ qresLen = maxResponseLen /\ Terminator \notin Range(decoded)

\* the position of the first Terminator among the decoded indices, or one
\* past the last decoded index
FirstTerminator ==
  LET Z == {k \in 1..Len(decoded) : decoded[k] = Terminator}
  IN IF Z = {} THEN Len(decoded) + 1
     ELSE CHOOSE k \in Z : \A j \in Z : k <= j

\* C12: the string Query returns is the decoded symbols, in order, before
\* the first decoded Terminator (at most maxResponseLen of them): it holds
\* no Terminator and nothing decoded after the first Terminator.
C12_ResponseIsDecodedPrefix ==
  /\ Terminator \notin Range(qres)
  /\ qpc \in {"decode", "done"} =>
       LET n == IF FirstTerminator - 1 <= maxResponseLen
                THEN FirstTerminator - 1 ELSE maxResponseLen
       IN qres = SubSeq(decoded, 1, n)

\* two symbols and then the Terminator were decoded
C12_Witness ==
  /\ qpc = "done" /\ lastOut = Terminator
  /\ Len(qres) = 2 /\ decoded = Append(qres, Terminator)

\* C13 as stated: in Query the block is Reading for every fed query
\* character and for the Terminator step, and Writing for every step after
\* it, for every query string.
C13_PhaseFlipsAtTerminatorOnly ==
  /\ qlast.op \in {"feed", "term"} => qlast.served
  /\ qlast.op = "decode" => ~qlast.served
  /\ qpc = "feed" => rstate.Reading
  /\ qpc \in {"decode", "done"} => ~rstate.Reading

\* C13 amended: the same, for the queries that hold no character of code 0
\* (whose one-hot vector is the Terminator vector).
C13_PhaseFlipsAtTerminatorNoZero ==
  /\ ~qzero =>
       /\ qlast.op \in {"feed", "term"} => qlast.served
       /\ qpc = "feed" => rstate.Reading
  /\ qlast.op = "decode" => ~qlast.served
  /\ qpc \in {"decode", "done"} => ~rstate.Reading

\* the first decoding step after the Terminator step of a query without a
\* character of code 0 was served by the writer
C13_Witness ==
  /\ qlast.op = "decode" /\ qlast.prevOp = "term"
  /\ ~qzero /\ ~qlast.served /\ ~rstate.Reading

\* C16 as stated: every input fed to the block after the Terminator step is
\* the one-hot vector of the symbol decoded from the block's output on the
\* immediately preceding step.
C16_FeedsBackPrecedingOutput ==
  qlast.op = "decode" => qlast.in = oneHotVector(qlast.prevIdx).data

\* C16 amended: the first input fed after the Terminator step is the one-hot
\* Terminator (the output of the Terminator step is not used); every later
\* input is the one-hot vector of the symbol decoded from the block's output
\* on the immediately preceding step.
C16_FeedsBackAfterFirst ==
  qlast.op = "decode" =>
    /\ qlast.prevOp = "term" => qlast.in = oneHotVector(Terminator).data
    /\ qlast.prevOp = "decode" => qlast.in = oneHotVector(qlast.prevIdx).data
    /\ qlast.prevOp \in {"term", "decode"}

\* a decoding step was fed the non-Terminator symbol decoded on the step
\* before it
C16_Witness ==
  /\ qlast.op = "decode" /\ qlast.prevOp = "decode"
  /\ qlast.prevIdx # Terminator
  /\ qlast.in = oneHotVector(qlast.prevIdx).data

\* C19: for a batch started from Block.StartState and stepped with
\* ApplyBlock, the first step of every sequence is served by the reader on
\* the reader's start state; every step is computed from the inner state the
\* block carried for the sequence; the writer serves a sequence only when
\* that state was produced by the reader consuming a non-zero Terminator
\* component or by the writer on an earlier step, and a state the writer
\* produced followed a Writing step.
C19_WriterAfterReaderTerminator ==
  /\ (mode = "rev" /\ steps = 0) => \A i \in 1..Len(states) :
       states[i] = [Reading |-> TRUE, State |-> ReaderStartState]
  /\ (mode = "rev" /\ Stepped) =>
       \A i \in Batch :
         LET o == res.OutVecs[i]
         IN /\ steps = 1 => (o.by = "Reader" /\ o.st = ReaderStartState)
            /\ o.st = callS[i].State
            /\ o.by = "Writer" =>
                 /\ ~callS[i].Reading
                 /\ o.st.by \in {"Reader", "Writer"}
                 /\ o.st.by = "Reader" => o.st.in[Terminator] # 0
            /\ states[i].State.by = "Writer" => ~callS[i].Reading
            /\ (~states[i].Reading /\ states[i].State.by = "Reader") =>
                 states[i].State.in[Terminator] # 0

\* on the second step the writer served a sequence from the state the
\* reader produced when it consumed a Terminator
C19_Witness ==
  /\ mode = "rev" /\ Stepped /\ steps = 2
  /\ \E i \in Batch :
       /\ res.OutVecs[i].by = "Writer"
       /\ res.OutVecs[i].st = [by |-> "Reader", in |-> VecT]

\* the reverse-mode view of a forward-mode block state / input / cell value
RevCellState(st) ==
  IF st = ReaderStartRState THEN ReaderStartState
  ELSE [by |-> st.by, in |-> st.in.Output]

RevState(x) == [Reading |-> x.Reading, State |-> RevCellState(x.State)]

RevOutput(o) == [by |-> o.by, st |-> RevCellState(o.st), in |-> o.in.Output]

RevSubResult(r) ==
  [kind |-> r.kind, cell |-> r.cell,
   Outputs |-> [j \in 1..Len(r.Outputs) |-> RevOutput(r.Outputs[j])],
   ROutputs |-> <<>>,
   States |-> [j \in 1..Len(r.States) |-> RevCellState(r.States[j])]]

RevDown(d) == [by |-> d.by, fwd |-> d.fwd, u |-> d.u, s |-> d.s]

RevCall(c) == [cell |-> c.cell, u |-> c.u, s |-> c.s]

\* C17: a forward-mode step (ApplyBlockR) records the same phase flags,
\* invokes the same sub-cells on the same partitions, places outputs,
\* R-outputs and states at the same batch positions and gives every sequence
\* the same next phase as the ApplyBlock step on the same flags and input
\* vectors; PropagateRGradient partitions and rejoins by the recorded flags
\* exactly as PropagateGradient does.
C17_ForwardMirrorsReverse ==
  /\ (mode = "fwd" /\ Stepped) =>
       LET r == ApplyBlock([i \in Batch |-> RevState(callS[i])],
                           [i \in Batch |-> callIn[i].Output])
       IN /\ ~r.panic
          /\ r.Reading = res.Reading
          /\ r.ReadRes = RevSubResult(res.ReadRes)
          /\ r.WriteRes = RevSubResult(res.WriteRes)
          /\ r.OutVecs = [i \in Batch |-> RevOutput(res.OutVecs[i])]
          /\ r.OutStates = [i \in Batch |-> RevState(res.OutStates[i])]
          /\ Len(res.ROutVecs) = Len(callS)
          /\ \A i \in Batch :
               res.ROutVecs[i] =
                 CellROutput(Serving(callS[i]), callS[i].State, callIn[i])
  /\ (mode = "fwd" /\ grad.called /\ Len(gradUR) = Len(res.Reading)) =>
       LET g == PropagateGradient(res, gradU, gradS)
       IN /\ g.panic = grad.panic
          /\ Len(g.down) = Len(grad.down)
          /\ \A i \in 1..Len(g.down) : g.down[i] = RevDown(grad.down[i])
          /\ Len(g.g) = Len(grad.g)
          /\ \A k \in 1..Len(g.g) : g.g[k] = RevCall(grad.g[k])

\* a forward-mode step over a batch with a Reading and a Writing sequence
\* was followed by a PropagateRGradient that returned
C17_Witness ==
  /\ mode = "fwd" /\ Stepped /\ grad.called /\ ~grad.panic
  /\ \E i, j \in Batch : callS[i].Reading /\ ~callS[j].Reading

InRange(x) == x >= 0 /\ x < CharCount

\* C14: for a Sample whose Query and Response runes are all in
\* [0, CharCount): InputSequence is the one-hot vector of each query rune in
\* order; DecoderOutSequence has |Response| + 1 entries, the one-hot vectors
\* of the response runes followed by the one-hot Terminator;
\* DecoderInSequence has the same length, starts with the one-hot Terminator
\* and DecoderInSequence[i + 1] = DecoderOutSequence[i] for every
\* i < |Response|.
C14_SampleSequences ==
  LET q == sample.Query
      a == sample.Response
  IN ((\A k \in 1..Len(q) : InRange(q[k])) /\ (\A k \in 1..Len(a) : InRange(a[k])))
     =>
       /\ inSeq.called =>
            /\ ~inSeq.r.panic
            /\ inSeq.r.seq = [k \in 1..Len(q) |-> oneHotVector(q[k]).data]
       /\ decOut.called =>
            /\ ~decOut.r.panic
            /\ Len(decOut.r.seq) = Len(a) + 1
            /\ \A k \in 1..Len(a) : decOut.r.seq[k] = oneHotVector(a[k]).data
            /\ decOut.r.seq[Len(a) + 1] = oneHotVector(Terminator).data
       /\ decIn.called =>
            /\ ~decIn.r.panic
            /\ Len(decIn.r.seq) = Len(a) + 1
            /\ decIn.r.seq[1] = oneHotVector(Terminator).data
            /\ \A k \in 1..Len(a) : decIn.r.seq[k + 1] = oneHotVector(a[k]).data
       /\ (decIn.called /\ decOut.called) =>
            \A k \in 1..Len(a) : decIn.r.seq[k + 1] = decOut.r.seq[k]

\* the three sequences of a sample with a two-rune query and a response of
\* two different runes have been derived
C14_Witness ==
  /\ inSeq.called /\ decOut.called /\ decIn.called
  /\ ~inSeq.r.panic /\ ~decOut.r.panic /\ ~decIn.r.panic
  /\ Len(sample.Query) = 2 /\ Len(sample.Response) = 2
  /\ sample.Response[1] # sample.Response[2]

\* C15: oneHotVector fails exactly when the rune is outside [0, CharCount);
\* for a rune inside it returns a vector of CharCount components, 1 at the
\* rune's index and 0 everywhere else.
C15_EncodeRange ==
  enc.called =>
    /\ enc.r.panic <=> ~InRange(sym)
    /\ ~enc.r.panic =>
         /\ DOMAIN enc.r.data = 0..(CharCount - 1)
         /\ \A k \in 0..(CharCount - 1) :
              enc.r.data[k] = IF k = sym THEN 1 ELSE 0

\* the rune CharCount, the first one above the alphabet, was rejected
C15_Witness == enc.called /\ sym = CharCount /\ enc.r.panic

\* C18: in two runs of ApplyBlock steps that agree on the initial phase of
\* sequence pidx and on the Terminator component of each of its inputs, the
\* phase of sequence pidx is the same after every step, whatever the phases
\* and inputs of the other sequences and the other components are.
C18_PhaseNonInterference ==
  (pidx > 0) =>
    /\ Len(pA) = Len(pB)
    /\ pA[pidx].Reading = pB[pidx].Reading

\* after two steps the observed sequence has the same phase in both runs
\* although it consumed different inputs and another sequence of the batch
\* is Reading in one run and Writing in the other
C18_Witness ==
  /\ pidx > 0 /\ psteps = 2
  /\ pinA[pidx] # pinB[pidx]
  /\ pA[pidx].Reading
  /\ \E j \in 1..Len(pA) : j # pidx /\ pA[j].Reading /\ ~pB[j].Reading

====
